---- MODULE Spec2Model ----
(***************************************************************************)
(* Model of snaptron_mcp_server.py: the query builder (build_url), the     *)
(* argument normaliser (extract_params), the transport client (fetch, as   *)
(* its set of outcomes) and the tool dispatcher (call_tool) with its       *)
(* except clauses.                                                         *)
(*                                                                         *)
(* Text is a sequence of tokens; each token stands for a non-empty piece   *)
(* of a Python str, so the empty str is the empty sequence and             *)
(* concatenation is \o.  Value tokens never hold the delimiters ? & = or a *)
(* newline: the delimiters are tokens of their own.                        *)
(***************************************************************************)
EXTENDS Integers, Sequences, FiniteSets, TLC

\* ------------------------------------------------------------------ bounds

\* Requests the gateway serves in one behaviour.
MaxRequests == 2
\* Longest tabular response body (in tokens) a query tool receives.
MaxBodyLen == 4
\* Longest tabular response body under the full dispatcher specification.
MaxSmallBodyLen == 1
\* Longest registry response body (in tokens).
MaxJsonLen == 4
\* Most key/value entries of a params mapping handed to build_url directly.
MaxParams == 2
\* Nesting depth beyond which CPython's json scanner raises RecursionError
\* (sys.getrecursionlimit(), 1000 by default), scaled to MaxJsonLen.
RecursionLimit == 2

\* --------------------------------------------------------------- constants

BASE_URL == "http://snaptron.cs.jhu.edu"

\* -------------------------------------------------------------- Python values

\* A Python value: None, a str (its tokens), an int, or a list of str.
PyNone == [t |-> "none", s |-> <<>>, n |-> 0, l |-> <<>>]
PyStr(tokens) == [t |-> "str", s |-> tokens, n |-> 0, l |-> <<>>]
PyInt(n) == [t |-> "int", s |-> <<>>, n |-> n, l |-> <<>>]
PyList(l) == [t |-> "list", s |-> <<>>, n |-> 0, l |-> l]

Digit(d) == <<"0", "1", "2", "3", "4", "5", "6", "7", "8", "9">>[d + 1]

\* str(n) of a non-negative int: its decimal digits.
RECURSIVE IntToStr(_)
IntToStr(n) == IF n < 10 THEN <<Digit(n)>>
               ELSE IntToStr(n \div 10) \o <<Digit(n % 10)>>

RECURSIVE JoinWith(_, _)
\* sep.join(parts) for a sequence of texts.
JoinWith(sep, parts) ==
    IF parts = <<>> THEN <<>>
    ELSE IF Len(parts) = 1 THEN parts[1]
    ELSE parts[1] \o sep \o JoinWith(sep, Tail(parts))

\* The text an f-string puts for {value}.
Format(v) ==
    CASE v.t = "none" -> <<"None">>
      [] v.t = "str" -> v.s
      [] v.t = "int" -> IntToStr(v.n)
      [] v.t = "list" ->
            <<"[">> \o JoinWith(<<", ">>,
                         [i \in 1..Len(v.l) |-> <<"'">> \o v.l[i] \o <<"'">>])
                    \o <<"]">>

\* bool(v): Python truthiness.
Truthy(v) ==
    CASE v.t = "none" -> FALSE
      [] v.t = "str" -> v.s # <<>>
      [] v.t = "int" -> v.n # 0
      [] v.t = "list" -> v.l # <<>>

\* "elif value:" in place of the two comparisons: drops a scalar 0.
IsSetScalar_Truthy(v) == Truthy(v)

\* value is not None and value != ""
IsSetScalar(v) == v.t # "none" /\ ~(v.t = "str" /\ v.s = <<>>)

\* ------------------------------------------------------------------ build_url

\* Empty elements of a list are skipped like empty scalars.
EntryParts_SkipEmpty(key, value) ==
    IF value.t = "list"
    THEN LET kept == SelectSeq(value.l, LAMBDA e : e # <<>>)
         IN [i \in 1..Len(kept) |-> <<key, "=">> \o kept[i]]
    ELSE IF IsSetScalar(value) THEN << <<key, "=">> \o Format(value) >>
    ELSE <<>>

\* The parts one (key, value) entry of params appends.
EntryParts(key, value) ==
    IF value.t = "list"
    THEN [i \in 1..Len(value.l) |-> <<key, "=">> \o value.l[i]]
    ELSE IF IsSetScalar(value) THEN << <<key, "=">> \o Format(value) >>
    ELSE <<>>

RECURSIVE Parts(_)
\* parts after the loop over params.items(); params is the dict as its
\* insertion-ordered sequence of entries [k, v].
Parts(params) ==
    IF params = <<>> THEN <<>>
    ELSE EntryParts(params[1].k, params[1].v) \o Parts(Tail(params))

build_url(compilation, endpoint, params) ==
    LET base == <<BASE_URL, "/">> \o Format(compilation) \o <<"/">> \o Format(endpoint)
        parts == Parts(params)
    IN IF parts # <<>> THEN base \o <<"?">> \o JoinWith(<<"&">>, parts)
       ELSE base

\* ------------------------------------------------------------- extract_params

ScalarKeys == <<"regions", "ids", "sids", "contains", "exact", "either",
                "header", "fields">>

Has(args, key) == key \in DOMAIN args

\* A list of entries in place of the dict: a second "fields" beside the first.
DictSet_Append(params, key, value) == Append(params, [k |-> key, v |-> value])

\* params[key] = value on an insertion-ordered dict: an existing key keeps its
\* place, a new key goes last.
DictSet(params, key, value) ==
    IF \E i \in 1..Len(params) : params[i].k = key
    THEN [i \in 1..Len(params) |->
            IF params[i].k = key THEN [k |-> key, v |-> value] ELSE params[i]]
    ELSE Append(params, [k |-> key, v |-> value])

RECURSIVE CopyScalars(_, _)
\* The loop over the allow-list: keys[1..] still to visit.
CopyScalars(args, keys) ==
    IF keys = <<>> THEN <<>>
    ELSE (IF Has(args, keys[1]) /\ args[keys[1]].t # "none"
          THEN << [k |-> keys[1], v |-> args[keys[1]]] >>
          ELSE <<>>) \o CopyScalars(args, Tail(keys))

extract_params(args) ==
    LET scalars == CopyScalars(args, ScalarKeys)
        withR == IF Has(args, "rfilter") /\ Truthy(args["rfilter"])
                 THEN DictSet(scalars, "rfilter", args["rfilter"])
                 ELSE scalars
    IN IF Has(args, "sfilter") /\ Truthy(args["sfilter"])
       THEN DictSet(withR, "sfilter", args["sfilter"])
       ELSE withR

\* ---------------------------------------------------------------------- fetch

\* What client.get(url) does: a response with a status and a body, or an
\* exception raised by the transport.
Response(status, text) ==
    [kind |-> "response", status |-> status, text |-> text, type |-> ""]
Raised(type, text) ==
    [kind |-> "raise", status |-> 0, text |-> text, type |-> type]
Returned(text) ==
    [kind |-> "return", status |-> 0, text |-> text, type |-> ""]

\* fetch, given what client.get did: returns response.text, or raises.
fetch(event) ==
    IF event.kind = "response"
    THEN IF event.status >= 200 /\ event.status < 300
         THEN Returned(event.text)
         ELSE [kind |-> "raise", status |-> event.status, text |-> event.text,
               type |-> "HTTPStatusError"]
    ELSE event

\* ----------------------------------------------------------------- json

IsWs(tok) == tok = " " \/ tok = "\n"

RECURSIVE SkipWs(_, _)
SkipWs(b, i) == IF i <= Len(b) /\ IsWs(b[i]) THEN SkipWs(b, i + 1) ELSE i

RECURSIVE NumEnd(_, _)
\* The index after the run of digits that starts at i.
NumEnd(b, i) == IF i <= Len(b) /\ b[i] = "1" THEN NumEnd(b, i + 1) ELSE i

JsonOk(pos, val) == [st |-> "ok", pos |-> pos, val |-> val]
JsonErr(type) == [st |-> type, pos |-> 0, val |-> <<>>]

RECURSIVE ScanOnce(_, _, _, _)
RECURSIVE ParseElements(_, _, _, _, _)
\* The elements of an array from index i on, after "[" and with acc built.
ParseElements(b, i, depth, limit, acc) ==
    LET r == ScanOnce(b, i, depth, limit)
        k == SkipWs(b, r.pos)
    IN IF r.st # "ok" THEN r
       ELSE IF k > Len(b) THEN JsonErr("JSONDecodeError")
       ELSE IF b[k] = "]" THEN JsonOk(k + 1, acc \o r.val \o <<"]">>)
       ELSE IF b[k] = ","
            THEN ParseElements(b, SkipWs(b, k + 1), depth, limit,
                               acc \o r.val \o <<",">>)
       ELSE JsonErr("JSONDecodeError")

\* The scanner on the value that starts at index i, inside depth arrays.  The
\* value it returns is the document's tokens without its whitespace.
ScanOnce(b, i, depth, limit) ==
    IF i > Len(b) THEN JsonErr("JSONDecodeError")
    ELSE IF b[i] = "1" THEN JsonOk(NumEnd(b, i), SubSeq(b, i, NumEnd(b, i) - 1))
    ELSE IF b[i] = "["
         THEN IF depth + 1 > limit THEN JsonErr("RecursionError")
              ELSE LET j == SkipWs(b, i + 1)
                   IN IF j <= Len(b) /\ b[j] = "]"
                      THEN JsonOk(j + 1, <<"[", "]">>)
                      ELSE ParseElements(b, j, depth + 1, limit, <<"[">>)
    ELSE JsonErr("JSONDecodeError")

\* json.loads(s) with the scanner allowed limit nested arrays.
JsonParse(b, limit) ==
    LET r == ScanOnce(b, SkipWs(b, 1), 0, limit)
    IN IF r.st # "ok" THEN r
       ELSE IF SkipWs(b, r.pos) <= Len(b) THEN JsonErr("JSONDecodeError")
       ELSE r

json_loads(b) == JsonParse(b, RecursionLimit)

Indent(d) == [i \in 1..(2 * d) |-> " "]

RECURSIVE Pretty(_, _, _)
\* json.dumps(parsed, indent=2) from token i of the parsed value on, at depth d.
Pretty(val, i, d) ==
    IF i > Len(val) THEN <<>>
    ELSE IF val[i] = "[" /\ val[i + 1] = "]"
         THEN <<"[", "]">> \o Pretty(val, i + 2, d)
    ELSE IF val[i] = "["
         THEN <<"[", "\n">> \o Indent(d + 1) \o Pretty(val, i + 1, d + 1)
    ELSE IF val[i] = ","
         THEN <<",", "\n">> \o Indent(d) \o Pretty(val, i + 1, d)
    ELSE IF val[i] = "]"
         THEN <<"\n">> \o Indent(d - 1) \o <<"]">> \o Pretty(val, i + 1, d - 1)
    ELSE <<val[i]>> \o Pretty(val, i + 1, d)

json_dumps(val) == Pretty(val, 1, 0)

\* ---------------------------------------------------------- record counting

RECURSIVE LStrip(_)
LStrip(text) == IF text # <<>> /\ IsWs(Head(text)) THEN LStrip(Tail(text)) ELSE text

RECURSIVE RStrip(_)
RStrip(text) ==
    IF text # <<>> /\ IsWs(text[Len(text)])
    THEN RStrip(SubSeq(text, 1, Len(text) - 1))
    ELSE text

\* str.strip()
Strip(text) == RStrip(LStrip(text))

RECURSIVE SplitLines(_, _)
\* str.split("\n"): cur is the line being read.
SplitLines(text, cur) ==
    IF text = <<>> THEN <<cur>>
    ELSE IF Head(text) = "\n" THEN <<cur>> \o SplitLines(Tail(text), <<>>)
    ELSE SplitLines(Tail(text), Append(cur, Head(text)))

\* l.startswith("DataSource")
StartsWithMarker(line) == line # <<>> /\ line[1] = "DataSource"

\* lines = result.strip().split("\n")
\* count = len([l for l in lines if l and not l.startswith("DataSource")])
CountRecords(result) ==
    LET lines == SplitLines(Strip(result), <<>>)
    IN Cardinality({i \in 1..Len(lines) :
                      lines[i] # <<>> /\ ~StartsWithMarker(lines[i])})

\* ------------------------------------------------------------------ call_tool

LIST_COMPILATIONS == "snaptron_list_compilations"
QUERY_JUNCTIONS == "snaptron_query_junctions"
QUERY_GENES == "snaptron_query_genes"
QUERY_SAMPLES == "snaptron_query_samples"
GET_RESULT_COUNT == "snaptron_get_result_count"
BUILD_URL == "snaptron_build_url"

Await(url) == [kind |-> "await", status |-> 0, text |-> url, type |-> ""]

KeyErrorCompilation == Raised("KeyError", <<"'compilation'">>)

RegistryUrl == <<BASE_URL, "/", "snaptron", "/", "registry">>

\* arguments.get("endpoint", "snaptron")
EndpointArg(arguments) ==
    IF Has(arguments, "endpoint") THEN arguments["endpoint"]
    ELSE PyStr(<<"snaptron">>)

\* The endpoint each record-returning branch passes to build_url.
QueryEndpoint(name) ==
    CASE name = QUERY_JUNCTIONS -> PyStr(<<"snaptron">>)
      [] name = QUERY_GENES -> PyStr(<<"genes">>)
      [] name = QUERY_SAMPLES -> PyStr(<<"samples">>)

BuiltText(url) ==
    <<"Built Snaptron URL:\n">> \o url
        \o <<"\n\nYou can test this with:\n  curl -L \"">> \o url \o <<"\"">>

\* The build-only branch fetching like the others.
BuildOnly_Fetches(arguments) ==
    IF ~Has(arguments, "compilation") THEN KeyErrorCompilation
    ELSE Await(build_url(arguments["compilation"], EndpointArg(arguments),
                         extract_params(arguments)))

\* The build-only branch.
BuildOnly(arguments) ==
    IF ~Has(arguments, "compilation") THEN KeyErrorCompilation
    ELSE Returned(BuiltText(build_url(arguments["compilation"],
                                      EndpointArg(arguments),
                                      extract_params(arguments))))

\* The else branch without the name in its text.
UnknownTool_NoName(name) == Returned(<<"Unknown tool">>)

\* The else branch.
UnknownTool(name) == Returned(<<"Unknown tool: ">> \o <<name>>)

\* The count-only branch up to its await.
CountOnly(arguments) ==
    IF ~Has(arguments, "compilation") THEN KeyErrorCompilation
    ELSE Await(build_url(arguments["compilation"], PyStr(<<"snaptron">>),
                         DictSet(extract_params(arguments), "fields",
                                 PyStr(<<"rc">>))))

\* arguments.get("compilation") in the record-returning branches: a missing
\* key gives None, and the URL is built and fetched.
Start_GetCompilation(name, arguments) ==
    CASE name = LIST_COMPILATIONS -> Await(RegistryUrl)
      [] name \in {QUERY_JUNCTIONS, QUERY_GENES, QUERY_SAMPLES} ->
            Await(build_url(IF Has(arguments, "compilation")
                            THEN arguments["compilation"] ELSE PyNone,
                            QueryEndpoint(name), extract_params(arguments)))
      [] name = GET_RESULT_COUNT -> CountOnly(arguments)
      [] name = BUILD_URL -> BuildOnly(arguments)
      [] OTHER -> UnknownTool(name)

\* call_tool from its entry to its first await, return or raise.
Start(name, arguments) ==
    CASE name = LIST_COMPILATIONS -> Await(RegistryUrl)
      [] name \in {QUERY_JUNCTIONS, QUERY_GENES, QUERY_SAMPLES} ->
            IF ~Has(arguments, "compilation") THEN KeyErrorCompilation
            ELSE Await(build_url(arguments["compilation"], QueryEndpoint(name),
                                 extract_params(arguments)))
      [] name = GET_RESULT_COUNT -> CountOnly(arguments)
      [] name = BUILD_URL -> BuildOnly(arguments)
      [] OTHER -> UnknownTool(name)

RecursionErrorText ==
    <<"maximum recursion depth exceeded while decoding a JSON array from a unicode string">>

\* The registry branch after its fetch returned result.
Registry(result) ==
    LET parsed == json_loads(result)
    IN IF parsed.st = "ok"
       THEN Returned(<<"Snaptron Compilation Registry:\n\n">>
                     \o json_dumps(parsed.val))
       ELSE IF parsed.st = "JSONDecodeError"
       THEN Returned(<<"Registry response:\n">> \o result)
       ELSE Raised(parsed.st, RecursionErrorText)

QueryText(url, result) ==
    <<"Query URL: ">> \o url \o <<"\n\nResults (">>
        \o IntToStr(CountRecords(result)) \o <<" records):\n\n">> \o result

CountText(url, result) ==
    <<"Query URL: ">> \o url \o <<"\n\nResult count response:\n">> \o result

\* A failed fetch is tried again.
Resume_Retry(name, url, got) ==
    IF got.kind = "raise" THEN Await(url)
    ELSE CASE name = LIST_COMPILATIONS -> Registry(got.text)
           [] name = GET_RESULT_COUNT -> Returned(CountText(url, got.text))
           [] OTHER -> Returned(QueryText(url, got.text))

\* call_tool from the point fetch(url) returned or raised (got) on.
Resume(name, url, got) ==
    IF got.kind = "raise" THEN got
    ELSE CASE name = LIST_COMPILATIONS -> Registry(got.text)
           [] name = GET_RESULT_COUNT -> Returned(CountText(url, got.text))
           [] OTHER -> Returned(QueryText(url, got.text))

\* httpx.RequestError and its subclasses.
IsRequestError(type) == type \in {"RequestError", "ConnectError", "ReadTimeout"}

\* The except clauses without the last one: other exceptions escape.
Except_NoCatchAll(e) ==
    CASE e.type = "HTTPStatusError" ->
            Returned(<<"HTTP error ">> \o IntToStr(e.status) \o <<": ">> \o e.text)
      [] IsRequestError(e.type) -> Returned(<<"Request error: ">> \o e.text)
      [] OTHER -> e

\* The HTTP-status clause without the response body.
Except_NoBody(e) ==
    CASE e.type = "HTTPStatusError" ->
            Returned(<<"HTTP error ">> \o IntToStr(e.status))
      [] IsRequestError(e.type) -> Returned(<<"Request error: ">> \o e.text)
      [] OTHER -> Returned(<<"Error: ">> \o e.text)

\* The three except clauses of call_tool, on the exception e.
Except(e) ==
    CASE e.type = "HTTPStatusError" ->
            Returned(<<"HTTP error ">> \o IntToStr(e.status) \o <<": ">> \o e.text)
      [] IsRequestError(e.type) -> Returned(<<"Request error: ">> \o e.text)
      [] OTHER -> Returned(<<"Error: ">> \o e.text)

\* The try block: a raise inside it goes through the except clauses.
Try(step) == IF step.kind = "raise" THEN Except(step) ELSE step

\* ---------------------------------------------------------------- the inputs

RECURSIVE SeqsUpTo(_, _)
\* The sequences over alphabet of length at most n.
SeqsUpTo(alphabet, n) ==
    IF n = 0 THEN {<<>>}
    ELSE LET shorter == SeqsUpTo(alphabet, n - 1)
         IN shorter \cup {Append(q, a) : q \in shorter, a \in alphabet}

Absent == [t |-> "absent", s |-> <<>>, n |-> 0, l |-> <<>>]

RfilterExample == PyList(<< <<"samples_count>:5">>, <<"coverage_avg>:10.0">> >>)

\* The argument mappings a caller sends: each key absent or with one of a
\* few values.
ArgChoices ==
    [compilation : {Absent, PyStr(<<"gtexv2">>)},
     endpoint : {Absent, PyStr(<<"genes">>)},
     regions : {Absent, PyNone, PyStr(<<"BRCA1">>)},
     fields : {Absent, PyStr(<<"chromosome,start">>)},
     rfilter : {Absent, PyList(<<>>), RfilterExample}]

ArgsOf(choice) ==
    [key \in {k \in DOMAIN choice : choice[k] # Absent} |-> choice[key]]

Arguments == {ArgsOf(c) : c \in ArgChoices}

\* Argument mappings for the specifications that vary the response body.
FewArguments ==
    {ArgsOf(c) : c \in [compilation : {PyStr(<<"gtexv2">>)},
                        regions : {Absent, PyStr(<<"BRCA1">>)},
                        header : {Absent, PyInt(0)}]}

NoArguments == [key \in {} |-> PyNone]

CatalogNames == {LIST_COMPILATIONS, QUERY_JUNCTIONS, QUERY_GENES, QUERY_SAMPLES,
                 GET_RESULT_COUNT, BUILD_URL}
NetworkTools == CatalogNames \ {BUILD_URL}
QueryTools == {QUERY_JUNCTIONS, QUERY_GENES, QUERY_SAMPLES}
UnknownNames == {"snaptron_query_exons", "SNAPTRON_BUILD_URL"}
ToolNames == CatalogNames \cup UnknownNames

TableAlphabet == {"\n", " ", "DataSource", "x"}
JsonAlphabet == {"[", "]", ",", "1", " "}

\* One marker line, three data lines and a trailing blank line.
TableExample == <<"DataSource", "\n", "x", "\n", "x", "\n", "x", "\n">>

TableBodies == SeqsUpTo(TableAlphabet, MaxBodyLen) \cup {TableExample}
SmallBodies == SeqsUpTo(TableAlphabet, MaxSmallBodyLen)
                 \cup {<<"[", "1", "]">>, <<"[", "[", "[">>}
JsonBodies == SeqsUpTo(JsonAlphabet, MaxJsonLen)

\* What the transport does besides answering 200.
Failures ==
    {Response(st, b) : st \in {404, 500}, b \in {<<>>, <<"server error">>}}
      \cup {Raised(ty, m) : ty \in {"ConnectError", "ReadTimeout", "InvalidURL"},
                            m \in {<<>>, <<"timed out">>}}

Events(bodies) == {Response(200, b) : b \in bodies} \cup Failures

\* --------------------------------------------------------------------- state

VARIABLES
    pc,          \* "idle", "awaiting" (call_tool is suspended in fetch), "done"
    name,        \* the tool name of the invocation in progress
    arguments,   \* its argument mapping
    url,         \* the URL of its last fetch
    fetchCalls,  \* the calls of fetch it has made
    event,       \* what the transport did on its last fetch
    outcome,     \* what call_tool ended with: a return or an escaped raise
    requests,    \* invocation requests received
    answered,    \* invocation requests answered with call_tool's result
    alive,       \* no exception has escaped call_tool
    input,       \* build_url called directly: its arguments
    built        \* ... and what it returned

vars == <<pc, name, arguments, url, fetchCalls, event, outcome, requests,
          answered, alive, input, built>>

NoEvent == [kind |-> "none", status |-> 0, text |-> <<>>, type |-> ""]
NoInput == [compilation |-> PyNone, endpoint |-> PyNone, params |-> <<>>,
            called |-> FALSE]

gateway == <<pc, name, arguments, url, fetchCalls, event, outcome, requests,
             answered, alive>>

GatewayInit ==
    /\ pc = "idle"
    /\ name = ""
    /\ arguments = NoArguments
    /\ url = <<>>
    /\ fetchCalls = 0
    /\ event = NoEvent
    /\ outcome = NoEvent
    /\ requests = 0
    /\ answered = 0
    /\ alive = TRUE

Init == GatewayInit /\ input = NoInput /\ built = <<>>

\* An invocation request arrives and call_tool runs to its first await, or to
\* its end.
CallTool(n, a) ==
    /\ pc = "idle"
    /\ alive
    /\ requests < MaxRequests
    /\ requests' = requests + 1
    /\ name' = n
    /\ arguments' = a
    /\ event' = NoEvent
    /\ LET step == Try(Start(n, a))
       IN IF step.kind = "await"
          THEN /\ pc' = "awaiting"
               /\ url' = step.text
               /\ fetchCalls' = 1
               /\ outcome' = NoEvent
          ELSE /\ pc' = "done"
               /\ url' = <<>>
               /\ fetchCalls' = 0
               /\ outcome' = step
    /\ UNCHANGED <<answered, alive, input, built>>

\* The fetch call_tool awaits ends, as the transport decides, and call_tool
\* runs on to its end (or to its next await).
FetchCompletes(ev) ==
    /\ pc = "awaiting"
    /\ event' = ev
    /\ LET step == Try(Resume(name, url, fetch(ev)))
       IN IF step.kind = "await"
          THEN /\ pc' = "awaiting"
               /\ url' = step.text
               /\ fetchCalls' = fetchCalls + 1
               /\ outcome' = NoEvent
          ELSE /\ pc' = "done"
               /\ fetchCalls' = fetchCalls
               /\ url' = url
               /\ outcome' = step
    /\ UNCHANGED <<name, arguments, requests, answered, alive, input, built>>

\* The gateway sends what call_tool returned; an exception that escaped
\* call_tool ends the serving of requests.
Respond ==
    /\ pc = "done"
    /\ pc' = "idle"
    /\ IF outcome.kind = "return"
       THEN answered' = answered + 1 /\ alive' = alive
       ELSE answered' = answered /\ alive' = FALSE
    /\ name' = ""
    /\ arguments' = NoArguments
    /\ url' = <<>>
    /\ fetchCalls' = 0
    /\ event' = NoEvent
    /\ outcome' = NoEvent
    /\ UNCHANGED <<requests, input, built>>

Next ==
    \/ \E n \in ToolNames, a \in Arguments : CallTool(n, a)
    \/ \E ev \in Events(SmallBodies) : FetchCompletes(ev)
    \/ Respond

Spec == Init /\ [][Next]_vars

\* The record-returning tools with every tabular body.
NextQuery ==
    \/ \E n \in QueryTools, a \in FewArguments : CallTool(n, a)
    \/ \E ev \in Events(TableBodies) : FetchCompletes(ev)
    \/ Respond

SpecQuery == Init /\ [][NextQuery]_vars

\* The registry-listing tool with every registry body.
NextRegistry ==
    \/ \E a \in FewArguments \cup {NoArguments} : CallTool(LIST_COMPILATIONS, a)
    \/ \E ev \in Events(JsonBodies) : FetchCompletes(ev)
    \/ Respond

SpecRegistry == Init /\ [][NextRegistry]_vars

\* build_url called directly with every params mapping.
ParamKeys == {"regions", "header", "rfilter"}
ParamValues ==
    {PyNone, PyStr(<<>>), PyStr(<<"BRCA1">>), PyInt(0), PyList(<<>>),
     RfilterExample, PyList(<< <<>>, <<"a">>, <<>> >>)}

\* The dicts of at most MaxParams entries, as their insertion order.
ParamMappings ==
    {p \in SeqsUpTo([k : ParamKeys, v : ParamValues], MaxParams) :
        \A i, j \in 1..Len(p) : i # j => p[i].k # p[j].k}

BuildUrl(c, e, p) ==
    /\ ~input.called
    /\ input' = [compilation |-> c, endpoint |-> e, params |-> p, called |-> TRUE]
    /\ built' = build_url(c, e, p)
    /\ UNCHANGED gateway

\* The caller is done with the URL.
Discard ==
    /\ input.called
    /\ input' = NoInput
    /\ built' = <<>>
    /\ UNCHANGED gateway

NextBuildUrl ==
    \/ \E c \in {PyStr(<<"gtexv2">>)},
          e \in {PyStr(<<"snaptron">>), PyStr(<<"genes">>)},
          p \in ParamMappings : BuildUrl(c, e, p)
    \/ Discard

SpecBuildUrl == Init /\ [][NextBuildUrl]_vars

\* ------------------------------------------------------ reading a text back

\* sub occurs in text, contiguous.
Contains(text, sub) ==
    \E i \in 0..(Len(text) - Len(sub)) : SubSeq(text, i + 1, i + Len(sub)) = sub

Tokens(text) == {text[i] : i \in 1..Len(text)}

RECURSIVE SplitOn(_, _, _)
\* text cut at every token sep.
SplitOn(text, sep, cur) ==
    IF text = <<>> THEN <<cur>>
    ELSE IF Head(text) = sep THEN <<cur>> \o SplitOn(Tail(text), sep, <<>>)
    ELSE SplitOn(Tail(text), sep, Append(cur, Head(text)))

\* The key=value pairs of a URL: what follows its "?", cut at every "&".
PairsOf(u) ==
    IF "?" \notin Tokens(u) THEN <<>>
    ELSE LET q == CHOOSE i \in 1..Len(u) :
                    u[i] = "?" /\ \A j \in 1..(i - 1) : u[j] # "?"
         IN SplitOn(SubSeq(u, q + 1, Len(u)), "&", <<>>)

\* The places of the pairs of u whose key is key.
PlacesOf(u, key) ==
    {j \in 1..Len(PairsOf(u)) : Len(PairsOf(u)[j]) >= 2
                                /\ PairsOf(u)[j][1] = key
                                /\ PairsOf(u)[j][2] = "="}

PathOf(inp) == <<BASE_URL, "/">> \o inp.compilation.s \o <<"/">> \o inp.endpoint.s

\* ------------------------------------------------------------------- claims

Done == pc = "done"
Failed2xx == event.kind = "response" /\ ~(event.status >= 200 /\ event.status < 300)
Got200 == event.kind = "response" /\ event.status >= 200 /\ event.status < 300

\* C1: whatever the tool name, the arguments and the outcome of the fetch,
\* call_tool ends by returning one text result and no exception escapes it;
\* every request received has been answered exactly once (the one in progress
\* excepted) and the gateway still serves.
C1_AlwaysOneResult ==
    /\ alive
    /\ Done => outcome.kind = "return" /\ outcome.text # <<>>
    /\ pc # "done" => outcome = NoEvent
    /\ answered = (IF pc = "idle" THEN requests ELSE requests - 1)

C1_Witness ==
    /\ Done /\ requests = 2 /\ answered = 1
    /\ event.kind = "raise" /\ event.type = "InvalidURL"
    /\ outcome.text[1] = "Error: "

\* The first tokens of the success payloads.
SuccessHeads == {"Query URL: ", "Snaptron Compilation Registry:\n\n",
                 "Registry response:\n", "Built Snaptron URL:\n"}

NotSuccess(text) ==
    /\ text[1] \notin SuccessHeads
    /\ ~Contains(text, url)
    /\ " records):\n\n" \notin Tokens(text)

\* C2: a non-2xx status s with body b ends in an error text holding s and b
\* (500 and "server error" among them); a network failure ends in an error
\* text of another form holding its message; neither is a success payload.
C2_SoftErrors ==
    /\ Done /\ Failed2xx =>
          /\ outcome.kind = "return"
          /\ outcome.text[1] = "HTTP error "
          /\ Contains(outcome.text, IntToStr(event.status))
          /\ Contains(outcome.text, event.text)
          /\ NotSuccess(outcome.text)
    /\ Done /\ event = Response(500, <<"server error">>) =>
          /\ Contains(outcome.text, <<"5", "0", "0">>)
          /\ Contains(outcome.text, <<"server error">>)
    /\ Done /\ event.kind = "raise" /\ IsRequestError(event.type) =>
          /\ outcome.kind = "return"
          /\ outcome.text[1] = "Request error: "
          /\ Contains(outcome.text, event.text)
          /\ NotSuccess(outcome.text)

C2_Witness ==
    /\ Done /\ name = QUERY_GENES
    /\ event = Response(500, <<"server error">>)
    /\ outcome.text = <<"HTTP error ", "5", "0", "0", ": ", "server error">>

\* The arguments let the branch reach its fetch.
WellFormed == name = LIST_COMPILATIONS \/ Has(arguments, "compilation")

\* C3: an invocation never makes a second fetch, failed or not, and each of
\* the five network tools has made exactly one when it ends on well-formed
\* arguments.
C3_AtMostOneFetch ==
    /\ fetchCalls <= 1
    /\ pc = "awaiting" => fetchCalls = 1
    /\ Done /\ name \in NetworkTools /\ WellFormed => fetchCalls = 1

C3_Witness ==
    /\ Done /\ name = GET_RESULT_COUNT /\ fetchCalls = 1
    /\ Failed2xx

\* C4: the build-only tool never fetches, and with 'compilation' present its
\* result holds the URL build_url gives for the normalized arguments (the
\* endpoint defaulting to snaptron).
C4_BuildOnlyNoFetch ==
    name = BUILD_URL =>
        /\ fetchCalls = 0
        /\ pc # "awaiting"
        /\ event = NoEvent
        /\ Done /\ Has(arguments, "compilation") =>
              /\ outcome.kind = "return"
              /\ Contains(outcome.text,
                          build_url(arguments["compilation"],
                                    IF Has(arguments, "endpoint")
                                    THEN arguments["endpoint"]
                                    ELSE PyStr(<<"snaptron">>),
                                    extract_params(arguments)))
              /\ Contains(outcome.text,
                          <<BASE_URL, "/", "gtexv2", "/",
                            IF Has(arguments, "endpoint") THEN "genes"
                            ELSE "snaptron">>)

C4_Witness ==
    /\ Done /\ name = BUILD_URL
    /\ Has(arguments, "compilation") /\ Has(arguments, "endpoint")
    /\ Has(arguments, "rfilter") /\ arguments["rfilter"] = RfilterExample
    /\ Contains(outcome.text, <<"genes", "?">>)

ListEntryEmitted(u, e) ==
    LET places == PlacesOf(u, e.k)
        n == Len(e.v.l)
    IN /\ Cardinality(places) = n
       /\ n > 0 =>
            \E first \in 1..Len(PairsOf(u)) :
                /\ places = first..(first + n - 1)
                /\ \A m \in 1..n :
                      PairsOf(u)[first + m - 1] = <<e.k, "=">> \o e.v.l[m]

ExampleParams == << [k |-> "regions", v |-> PyStr(<<"BRCA1">>)],
                    [k |-> "rfilter", v |-> RfilterExample] >>

ExampleUrl == <<"http://snaptron.cs.jhu.edu", "/", "gtexv2", "/", "snaptron", "?",
                "regions", "=", "BRCA1", "&",
                "rfilter", "=", "samples_count>:5", "&",
                "rfilter", "=", "coverage_avg>:10.0">>

\* C6: a list-valued key with N elements gives exactly N pairs of the built
\* URL, next to each other and in the order of the elements, an empty element
\* as "key="; and the example of the spec gives the URL of the spec.
C6_RepeatedKeys ==
    input.called =>
        /\ \A i \in 1..Len(input.params) :
              input.params[i].v.t = "list" => ListEntryEmitted(built, input.params[i])
        /\ (input.params = ExampleParams /\ input.endpoint = PyStr(<<"snaptron">>))
              => built = ExampleUrl

C6_Witness ==
    /\ input.called
    /\ Len(input.params) = 2
    /\ input.params[1].v = PyStr(<<"BRCA1">>)
    /\ input.params[2].v = PyList(<< <<>>, <<"a">>, <<>> >>)
    /\ Len(PairsOf(built)) = 4
    /\ PairsOf(built)[4] = <<input.params[2].k, "=">>

\* The pairs an entry is due by the contract of build.
Skipped(v) == v.t = "none" \/ (v.t = "str" /\ v.s = <<>>)

PairsDue(v) == IF v.t = "list" THEN Len(v.l) ELSE IF Skipped(v) THEN 0 ELSE 1

RECURSIVE TotalDue(_)
TotalDue(params) ==
    IF params = <<>> THEN 0 ELSE PairsDue(params[1].v) + TotalDue(Tail(params))

\* C7: a scalar None or "" gives no pair and a scalar 0 gives key=0; with no
\* pair at all the URL is the path base/compilation/endpoint and has no "?";
\* otherwise it is the path, "?" and the pairs joined by "&".
C7_EmptyScalarsSkipped ==
    input.called =>
        LET path == PathOf(input)
            pairs == PairsOf(built)
        IN /\ \A i \in 1..Len(input.params) :
                LET e == input.params[i]
                IN /\ e.v.t # "list" /\ Skipped(e.v) => PlacesOf(built, e.k) = {}
                   /\ e.v = PyInt(0) =>
                        \E j \in 1..Len(pairs) : pairs[j] = <<e.k, "=", "0">>
           /\ TotalDue(input.params) = 0 => built = path /\ "?" \notin Tokens(built)
           /\ TotalDue(input.params) > 0 =>
                /\ SubSeq(built, 1, Len(path) + 1) = path \o <<"?">>
                /\ Len(pairs) = TotalDue(input.params)
                /\ \A j \in 1..Len(pairs) :
                      /\ Len(pairs[j]) >= 2
                      /\ pairs[j][2] = "="
                      /\ \E i \in 1..Len(input.params) : input.params[i].k = pairs[j][1]

C7_Witness ==
    /\ input.called
    /\ Len(input.params) = 2
    /\ input.params[1].v = PyStr(<<>>)
    /\ input.params[2].v = PyInt(0)
    /\ built = PathOf(input) \o <<"?", input.params[2].k, "=", "0">>

\* The count with each line trimmed on its own.
ClaimedCount(body) ==
    LET lines == SplitOn(body, "\n", <<>>)
    IN Cardinality({i \in 1..Len(lines) :
                      Strip(lines[i]) # <<>>
                      /\ Strip(lines[i])[1] # "DataSource"})

\* C8: the record count a query tool reports is the number of lines of the
\* body (cut at every newline) that, trimmed of their own surrounding
\* whitespace, are not empty and do not start with DataSource.
C8_CountTrimsEachLine ==
    Done /\ name \in QueryTools /\ Got200 =>
        Contains(outcome.text,
                 <<"\n\nResults (">> \o IntToStr(ClaimedCount(event.text))
                    \o <<" records):\n\n">>)

\* C9: a name outside the catalog ends in a returned text holding the name,
\* whatever the arguments, and no fetch is made.
C9_UnknownToolSoftError ==
    name \notin CatalogNames \cup {""} =>
        /\ fetchCalls = 0
        /\ pc = "done"
        /\ outcome.kind = "return"
        /\ Contains(outcome.text, <<name>>)

C9_Witness ==
    /\ Done /\ name = "SNAPTRON_BUILD_URL"
    /\ Has(arguments, "compilation") /\ Has(arguments, "rfilter")
    /\ outcome.text = <<"Unknown tool: ", "SNAPTRON_BUILD_URL">>

\* body is a JSON document, however deep.
Parses(body) == JsonParse(body, Len(body) + 1).st = "ok"

\* C10: the registry tool fetches base/snaptron/registry whatever its
\* arguments, and a fetched body always ends in a success payload: pretty
\* printed when it parses, the raw body when it does not, never an error.
C10_RegistryNeverErrors ==
    name = LIST_COMPILATIONS =>
        /\ pc # "idle" => url = RegistryUrl
        /\ Done /\ Got200 =>
              /\ outcome.kind = "return"
              /\ Parses(event.text) =>
                    outcome.text = <<"Snaptron Compilation Registry:\n\n">>
                        \o json_dumps(JsonParse(event.text, Len(event.text) + 1).val)
              /\ ~Parses(event.text) =>
                    outcome.text = <<"Registry response:\n">> \o event.text

\* The five tools that read arguments["compilation"].
CompilationTools == CatalogNames \ {LIST_COMPILATIONS}

\* C11: an invocation of one of the five tools that take a compilation, with
\* no 'compilation' among its arguments, ends in the generic error text of the
\* catch-all clause, with no URL built and no fetch made.
C11_MissingCompilation ==
    name \in CompilationTools /\ ~Has(arguments, "compilation") =>
        /\ pc = "done"
        /\ fetchCalls = 0
        /\ url = <<>>
        /\ event = NoEvent
        /\ outcome.kind = "return"
        /\ outcome.text = <<"Error: ", "'compilation'">>
        /\ BASE_URL \notin Tokens(outcome.text)

C11_Witness ==
    /\ Done /\ name = QUERY_SAMPLES
    /\ ~Has(arguments, "compilation")
    /\ Has(arguments, "regions") /\ Has(arguments, "rfilter")
    /\ outcome.text[1] = "Error: "
    /\ fetchCalls = 0

====
